---------------------------- MODULE Spec2Model ----------------------------
(***************************************************************************)
(* A model of the per-utterance turn pipeline of VoiceAgent:               *)
(*   backend/fastrtc_server.py   response_handler, create_tts_audio        *)
(*   backend/models/*.py         ModelManager / DeepSeekModel streaming    *)
(*   backend/tts/tts_manager.py  TTSManager.synthesize                     *)
(*   backend/stt/stt_manager.py  STTManager.transcribe / is_loaded         *)
(*                                                                         *)
(* Text is a sequence of one-character strings, so that str.strip(), len() *)
(* and the substring tests of the code are computed, not assumed.          *)
(* Audio is a mono int16 signal given by its sample rate, its length and a *)
(* short pattern that the samples repeat, so that signals of 0.5 s .. 30 s *)
(* at real sample rates can be conditioned without enumerating samples.    *)
(***************************************************************************)
EXTENDS Integers, Sequences, FiniteSets, TLC

VARIABLES
    env,                        \* the collaborators of this turn (see Envs)
    input,                      \* the audio tuple handed to response_handler
    pc,                         \* position of response_handler
    reason,                     \* why the turn ended without reaching the loop
    stt_calls,                  \* audio handed to stt_manager.transcribe
    transcription,              \* local `transcription` (stripped STT text)
    conversation_history,       \* BaseAIModel.conversation_history
    gen,                        \* state of the call_ai_api_stream generator
    ai_reply,                   \* local `ai_reply` of call_api_stream
    failure,                    \* how text generation failed ("" if not)
    frags,                      \* text_chunk values received by the loop
    text_buffer,                \* local `text_buffer`
    calls,                      \* create_tts_audio calls of the turn, in order
    yielded,                    \* segments yielded to the transport, in order
    clock,                      \* time.time()
    metrics,                    \* the latency milestones of the turn
    payload,                    \* "messages" of the request of this turn
    peer,                       \* a second response_handler call in progress
    added                       \* entries given to add_to_history directly

vars == <<env, input, pc, reason, stt_calls, transcription,
          conversation_history, gen, ai_reply, failure, frags, text_buffer,
          calls, yielded, clock, metrics, payload, peer, added>>

---------------------------------------------------------------------------
(* Bounds of the model.                                                    *)

\* Content fragments the remote model sends in one reply, at most.
MaxFrags == 3

---------------------------------------------------------------------------
(* Text.                                                                   *)

\* Characters that str.strip() removes and that str.isalpha() accepts.
Whitespace == {" ", "\n", "\t"}

Letters ==
    {"a", "b", "c", "d", "e", "f", "g", "h", "i", "j", "k", "l", "m",
     "n", "o", "p", "q", "r", "s", "t", "u", "v", "w", "x", "y", "z",
     "A", "B", "C", "D", "E", "F", "G", "H", "I", "J", "K", "L", "M",
     "N", "O", "P", "Q", "R", "S", "T", "U", "V", "W", "X", "Y", "Z"}

\* str.strip(): the text without its leading and trailing whitespace.
Strip(s) ==
    LET keep == {i \in 1..Len(s) : s[i] \notin Whitespace}
    IN  IF keep = {} THEN <<>>
        ELSE LET first == CHOOSE i \in keep : \A j \in keep : i <= j
                 last  == CHOOSE i \in keep : \A j \in keep : j <= i
             IN  SubSeq(s, first, last)

\* sub in s, for two texts.
Contains(s, sub) ==
    \E i \in 0..(Len(s) - Len(sub)) : SubSeq(s, i + 1, i + Len(sub)) = sub

\* list(filter): the elements of s that are in set keep, in order.
Filter(s, keep) ==
    LET Kept(x) == x \in keep IN SelectSeq(s, Kept)

\* "".join(parts).
RECURSIVE Join(_)
Join(parts) ==
    IF parts = <<>> THEN <<>> ELSE parts[1] \o Join(Tail(parts))

---------------------------------------------------------------------------
(* Audio conditioning: response_handler, lines 121-251.                    *)
(*                                                                         *)
(* A signal is [rate, len, pat]: sample i (from 1) is pat[((i-1) % P) + 1] *)
(* with P = Len(pat).  Samples are int16 values.                           *)

\* PERFORMANCE_CONFIG.min_audio_duration and .max_audio_duration, in ms.
MinAudioDurationMs == 500
MaxAudioDurationMs == 30000

\* The one input rate that is decimated, and the rate it becomes.
DecimatedRate == 48000
HalvedRate == 24000

\* int16 full scale: audio_float = audio_data / 32768.0.
FullScale == 32768

Abs(x) == IF x < 0 THEN -x ELSE x

Max2(x, y) == IF x < y THEN y ELSE x

\* How many of the samples 1..n sit on pattern position k (period P).
Occurs(n, P, k) == (n \div P) + (IF k <= n % P THEN 1 ELSE 0)

SampleAt(a, i) == a.pat[((i - 1) % Len(a.pat)) + 1]

\* Mutant of Decimate: the slice keeps one sample more than every second.
DecimateKeepsOneMore(a) ==
    [rate |-> HalvedRate,
     len  |-> a.len \div 2 + 1,
     pat  |-> [k \in 1..Len(a.pat) |->
                  a.pat[((2 * (k - 1)) % Len(a.pat)) + 1]]]

\* audio_data[::2]: samples 1, 3, 5, ... of the signal, at half the rate.
Decimate(a) ==
    [rate |-> HalvedRate,
     len  |-> (a.len + 1) \div 2,
     pat  |-> [k \in 1..Len(a.pat) |->
                  a.pat[((2 * (k - 1)) % Len(a.pat)) + 1]]]

\* Mutant of Resample: every rate that is twice another accepted rate is
\* converted.
ResampleEveryDouble(a) ==
    IF a.rate \in {48000, 44100, 16000}
    THEN [Decimate(a) EXCEPT !.rate = a.rate \div 2]
    ELSE a

\* Lines 140-146: only a 48 kHz input is converted.
Resample(a) == IF a.rate = DecimatedRate THEN Decimate(a) ELSE a

\* duration < min_audio_duration, with duration = len / rate (line 158).
TooShort(a) == a.len * 1000 < MinAudioDurationMs * a.rate

\* int(min_audio_duration * rate) and int(max_audio_duration * rate).
min_samples(a) == (MinAudioDurationMs * a.rate) \div 1000
max_samples(a) == (MaxAudioDurationMs * a.rate) \div 1000

\* sum(audio_data ** 2) over the whole signal.
RECURSIVE SumSqUpTo(_, _)
SumSqUpTo(a, k) ==
    IF k = 0 THEN 0
    ELSE SumSqUpTo(a, k - 1)
         + Occurs(a.len, Len(a.pat), k) * a.pat[k] * a.pat[k]

SumSq(a) == SumSqUpTo(a, Len(a.pat))

\* x / n < whole + milli / 1000, without leaving 32 bits.
MeanBelow(x, n, whole, milli) ==
    \/ x \div n < whole
    \/ x \div n = whole /\ (x % n) * 1000 < milli * n

\* rms_float == 0 (line 176): every sample is zero.
IsSilent(a) == SumSq(a) = 0

\* rms_float < 0.001 (line 174): mean(x^2) < (0.001 * 32768)^2 = 1073.742.
LowEnergy(a) == MeanBelow(SumSq(a), a.len, 1073, 742)

\* min(0.01 / rms_float, 50) is 50 when rms_float <= 0.0002, that is when
\* mean(x^2) <= (0.0002 * 32768)^2 = 42.950; otherwise the factor brings the
\* RMS to 0.01 exactly.
Gain(a) ==
    IF ~LowEnergy(a) THEN "x1"
    ELSE IF MeanBelow(SumSq(a), a.len, 42, 950) THEN "x50"
    ELSE "to_rms"

\* np.max(np.abs(audio_float)) over the first m samples, in int16 units
\* before the gain.
RECURSIVE MaxAbsUpTo(_, _)
MaxAbsUpTo(a, k) ==
    IF k = 0 THEN 0 ELSE Max2(MaxAbsUpTo(a, k - 1), Abs(a.pat[k]))

MaxAbs(a) ==
    MaxAbsUpTo(a, IF a.len < Len(a.pat) THEN a.len ELSE Len(a.pat))

\* 0 < max_amplitude < 0.01 (line 225).  After the gain that brings the RMS
\* to 0.01 the peak is at least 0.01.
LowAmplitude(a, gain) ==
    /\ MaxAbs(a) > 0
    /\ CASE gain = "x1"     -> MaxAbs(a) * 100 < FullScale
         [] gain = "x50"    -> MaxAbs(a) * 50 * 100 < FullScale
         [] gain = "to_rms" -> FALSE

\* Mutant of IsFlat: only an all-zero signal counts as flat.
IsFlatOnlyZero(a) == \A i \in 1..Len(a.pat) : a.pat[i] = 0

\* audio_std < 1e-6 (line 239).  The samples of a periodic signal are all
\* equal, or their standard deviation is far above 1e-6 of full scale.
IsFlat(a) ==
    \A i \in 1..(IF a.len < Len(a.pat) THEN a.len ELSE Len(a.pat)) :
        a.pat[i] = a.pat[1]

\* np.signbit of a sample.
SignBit(x) == x < 0

\* np.sum(np.diff(np.signbit(audio_float))): sign changes between
\* neighbours among the samples 1..a.len.
RECURSIVE CrossingsUpTo(_, _)
CrossingsUpTo(a, k) ==
    IF k = 0 THEN 0
    ELSE CrossingsUpTo(a, k - 1)
         + (IF SignBit(a.pat[k]) # SignBit(a.pat[(k % Len(a.pat)) + 1])
            THEN Occurs(a.len - 1, Len(a.pat), k) ELSE 0)

zero_crossings(a) == CrossingsUpTo(a, Len(a.pat))

\* zero_crossing_rate < 1e-4 (line 244).
LowCrossingRate(a) == zero_crossings(a) <= (a.len - 1) \div 10000

\* Mutant of Truncate: the last max_samples samples are kept.
TruncateKeepsLast(a) ==
    IF a.len > max_samples(a)
    THEN [a EXCEPT !.len = max_samples(a),
                   !.pat = [k \in 1..Len(a.pat) |->
                               SampleAt(a, k + a.len - max_samples(a))]]
    ELSE a

\* audio_float[:max_samples] (lines 219-222).
Truncate(a) ==
    IF a.len > max_samples(a) THEN [a EXCEPT !.len = max_samples(a)] ELSE a

Rejected(why) == [ok |-> FALSE, reason |-> why, audio |-> <<>>]

\* Lines 121-251 of response_handler as a function of the audio tuple: the
\* rejection, or the signal that is handed to the transcriber, described by
\* the int16 signal it was made from and the float operations applied.
Conditioner(audio) ==
    IF audio.len = 0 THEN Rejected("empty")
    ELSE LET a == Resample(audio) IN
    IF TooShort(a) THEN Rejected("short")
    ELSE IF LowEnergy(a) /\ IsSilent(a) THEN Rejected("silent")
    ELSE IF a.len < min_samples(a) THEN Rejected("short_samples")
    ELSE LET t == Truncate(a)
             gain == Gain(a)
         IN
    IF IsFlat(t) THEN Rejected("flat")
    ELSE [ok |-> TRUE, reason |-> "",
          audio |-> [rate       |-> t.rate,
                     len        |-> t.len,
                     pat        |-> t.pat,
                     gain       |-> gain,
                     normalized |-> LowAmplitude(t, gain),
                     centered   |-> LowCrossingRate(t)]]

---------------------------------------------------------------------------
(* Transcript quality filter: response_handler, lines 289-343.             *)

SUBTITLE_BY_SOMEONE ==
    <<"s", "u", "b", "t", "i", "t", "l", "e", " ", "b", "y", " ",
      "s", "o", "m", "e", "o", "n", "e">>

SUBTITLE_BY ==
    <<"s", "u", "b", "t", "i", "t", "l", "e", " ", "b", "y">>

SUBTITLE ==
    <<"s", "u", "b", "t", "i", "t", "l", "e">>

I_LOVE_YOU ==
    <<"I", " ", "l", "o", "v", "e", " ", "y", "o", "u">>

LOVE_YOU ==
    <<"l", "o", "v", "e", " ", "y", "o", "u">>

THANK_YOU_DOT ==
    <<"T", "h", "a", "n", "k", " ", "y", "o", "u", ".">>

THANKS ==
    <<"t", "h", "a", "n", "k", "s">>

THANK_YOU_FOR_WATCHING ==
    <<"T", "h", "a", "n", "k", " ", "y", "o", "u", " ", "f", "o",
      "r", " ", "w", "a", "t", "c", "h", "i", "n", "g">>

PLEASE_LIKE ==
    <<"p", "l", "e", "a", "s", "e", " ", "l", "i", "k", "e", " ",
      "s", "u", "b", "s", "c", "r", "i", "b", "e", " ", "a", "n",
      "d", " ", "s", "h", "a", "r", "e">>

THANKS_FOR_WATCHING ==
    <<"t", "h", "a", "n", "k", "s", " ", "f", "o", "r", " ", "w",
      "a", "t", "c", "h", "i", "n", "g">>

CAPTIONS ==
    <<"c", "a", "p", "t", "i", "o", "n", "s">>

bad_strings == <<SUBTITLE_BY_SOMEONE, SUBTITLE_BY, SUBTITLE>>

hallucination_patterns ==
    <<THANK_YOU_DOT, THANKS, THANK_YOU_FOR_WATCHING, PLEASE_LIKE,
      THANKS_FOR_WATCHING, SUBTITLE, SUBTITLE, CAPTIONS>>

\* for p in patterns: if p in text: ...; break  -- the first pattern of the
\* list that the text contains, as a one-element sequence, or <<>>.
FirstContained(text, patterns) ==
    LET hits == {i \in 1..Len(patterns) : Contains(text, patterns[i])}
    IN  IF hits = {} THEN <<>>
        ELSE <<patterns[CHOOSE i \in hits : \A j \in hits : i <= j]>>

\* transcription.count('!').
exclamation_count(text) == Cardinality({i \in 1..Len(text) : text[i] = "!"})

\* transcription.replace(' ', '').replace('\n', '').
Unspaced(text) ==
    Filter(text, {text[i] : i \in 1..Len(text)} \ {" ", "\n"})

unique_chars(text) ==
    Cardinality({Unspaced(text)[i] : i \in 1..Len(Unspaced(text))})

total_chars(text) == Len(Unspaced(text))

\* Mutant of ExclamationOverload: 20 exclamation marks are too many.
ExclamationOverloadInclusive(text) ==
    \/ exclamation_count(text) >= 20
    \/ 10 * exclamation_count(text) > 3 * Len(text)

\* Line 312: exclamation_count > 20 or exclamation_density > 0.3.
ExclamationOverload(text) ==
    \/ exclamation_count(text) > 20
    \/ 10 * exclamation_count(text) > 3 * Len(text)

\* Line 316: repeat_density > 0.8 and total_chars > 10, with
\* repeat_density = 1 - unique_chars / total_chars.
RepetitionDense(text) ==
    /\ total_chars(text) > 10
    /\ 5 * unique_chars(text) < total_chars(text)

\* Lines 320-323.
LongAffectionLoop(text) ==
    /\ Len(text) > 200
    /\ (Contains(text, I_LOVE_YOU) \/ Contains(text, LOVE_YOU))

\* Lines 325-328: len(clean_text) < len(transcription) * 0.3.
LowAlphabeticRatio(text) == 10 * Len(Filter(text, Letters)) < 3 * Len(text)

Verdict(rule, detail) == [kind |-> rule, detail |-> detail]

\* The reasons of the rules that match, in the order the code tests them.
\* Every matching rule assigns bad_reason, so the last one is reported.
RuleMatches(text) ==
    (IF FirstContained(text, bad_strings) # <<>>
        THEN <<Verdict("bad_string", FirstContained(text, bad_strings)[1])>>
        ELSE <<>>)
    \o (IF ExclamationOverload(text)
        THEN <<Verdict("exclamations", <<>>)>> ELSE <<>>)
    \o (IF RepetitionDense(text)
        THEN <<Verdict("repetition", <<>>)>> ELSE <<>>)
    \o (IF LongAffectionLoop(text)
        THEN <<Verdict("love_loop", <<>>)>> ELSE <<>>)
    \o (IF LowAlphabeticRatio(text)
        THEN <<Verdict("low_alpha", <<>>)>> ELSE <<>>)
    \o (IF FirstContained(text, hallucination_patterns) # <<>>
        THEN <<Verdict("hallucination",
                       FirstContained(text, hallucination_patterns)[1])>>
        ELSE <<>>)

is_bad_pattern(text) == RuleMatches(text) # <<>>

bad_reason(text) == RuleMatches(text)[Len(RuleMatches(text))]

---------------------------------------------------------------------------
(* Transcription gate: response_handler, lines 253-287.                    *)

\* The no-speech probability is in thousandths; the gate is > 0.9.
NoSpeechLimit == 900

\* Mutant of GateAndFilter: a no-speech probability of exactly 0.9 is
\* rejected as well.
GateAndFilterInclusive(result) ==
    LET text == Strip(result.text) IN
    IF text = <<>> \/ result.no_speech_prob >= NoSpeechLimit
    THEN Verdict("no_speech", <<>>)
    ELSE IF is_bad_pattern(text) THEN bad_reason(text)
    ELSE Verdict("", <<>>)

\* Lines 280-343 on the transcriber's result: the verdict that ends the
\* turn, or Verdict("", <<>>) when the text goes on to the model.
GateAndFilter(result) ==
    LET text == Strip(result.text) IN
    IF text = <<>> \/ result.no_speech_prob > NoSpeechLimit
    THEN Verdict("no_speech", <<>>)
    ELSE IF is_bad_pattern(text) THEN bad_reason(text)
    ELSE Verdict("", <<>>)

---------------------------------------------------------------------------
(* Text generation: ModelManager.call_ai_api_stream over                   *)
(* DeepSeekModel.call_api_stream, as the generator the loop pulls from.    *)

MSG_MANAGER_ISSUE ==
    <<"S", "o", "r", "r", "y", ",", " ", "A", "I", " ", "m", "o",
      "d", "e", "l", " ", "e", "n", "c", "o", "u", "n", "t", "e",
      "r", "e", "d", " ", "a", "n", " ", "i", "s", "s", "u", "e",
      " ", "w", "h", "i", "l", "e", " ", "p", "r", "o", "c", "e",
      "s", "s", "i", "n", "g", ".">>

MSG_NOT_CONFIGURED ==
    <<"S", "o", "r", "r", "y", ",", " ", "d", "e", "e", "p", "s",
      "e", "e", "k", " ", "m", "o", "d", "e", "l", " ", "i", "s",
      " ", "n", "o", "t", " ", "p", "r", "o", "p", "e", "r", "l",
      "y", " ", "c", "o", "n", "f", "i", "g", "u", "r", "e", "d",
      ".">>

MSG_CONNECT ==
    <<"S", "o", "r", "r", "y", ",", " ", "u", "n", "a", "b", "l",
      "e", " ", "t", "o", " ", "c", "o", "n", "n", "e", "c", "t",
      " ", "t", "o", " ", "D", "e", "e", "p", "S", "e", "e", "k",
      " ", "s", "e", "r", "v", "i", "c", "e", ".">>

MSG_TIMEOUT ==
    <<"S", "o", "r", "r", "y", ",", " ", "D", "e", "e", "p", "S",
      "e", "e", "k", " ", "r", "e", "s", "p", "o", "n", "s", "e",
      " ", "t", "i", "m", "e", "d", " ", "o", "u", "t", ",", " ",
      "p", "l", "e", "a", "s", "e", " ", "t", "r", "y", " ", "a",
      "g", "a", "i", "n", " ", "l", "a", "t", "e", "r", ".">>

MSG_NETWORK ==
    <<"S", "o", "r", "r", "y", ",", " ", "D", "e", "e", "p", "S",
      "e", "e", "k", " ", "e", "n", "c", "o", "u", "n", "t", "e",
      "r", "e", "d", " ", "a", " ", "n", "e", "t", "w", "o", "r",
      "k", " ", "i", "s", "s", "u", "e", ".">>

MSG_HTTP_ERROR ==
    <<"S", "o", "r", "r", "y", ",", " ", "D", "e", "e", "p", "S",
      "e", "e", "k", " ", "c", "a", "n", "n", "o", "t", " ", "a",
      "n", "s", "w", "e", "r", " ", "y", "o", "u", "r", " ", "q",
      "u", "e", "s", "t", "i", "o", "n", " ", "r", "i", "g", "h",
      "t", " ", "n", "o", "w", ".">>

MSG_TECHNICAL ==
    <<"S", "o", "r", "r", "y", ",", " ", "D", "e", "e", "p", "S",
      "e", "e", "k", " ", "e", "n", "c", "o", "u", "n", "t", "e",
      "r", "e", "d", " ", "s", "o", "m", "e", " ", "t", "e", "c",
      "h", "n", "i", "c", "a", "l", " ", "i", "s", "s", "u", "e",
      "s", ".">>

\* Mutant of add_to_history: the oldest entries are kept.
add_to_history_keeps_oldest(history, role, content) ==
    LET h == Append(history, [role |-> role, content |-> content])
    IN  IF Len(h) > 20 THEN SubSeq(h, 1, 20) ELSE h

\* BaseAIModel.add_to_history: append, then keep the last 20 entries.
HistoryLimit == 20

add_to_history(history, role, content) ==
    LET h == Append(history, [role |-> role, content |-> content])
    IN  IF Len(h) > HistoryLimit
        THEN SubSeq(h, Len(h) - HistoryLimit + 1, Len(h))
        ELSE h

\* The fragments the remote model can send.
Frags ==
    {<<"a">>, <<"b">>, <<"c", "d">>, <<" ">>, <<"a", " ">>,
     <<"e", "f", "g">>}

\* What a pull finds upstream: the request failing, one more content
\* fragment, the response iterator raising, or the end of the response.
Outcome(kind, how, text) == [kind |-> kind, how |-> how, text |-> text]

RequestFailures ==
    {Outcome("request_failed", how, <<>>) :
        how \in {"connection", "timeout", "other", "status"}}

StreamOutcomes(budget) ==
    {Outcome("content", "", f) : f \in (IF budget > 0 THEN Frags ELSE {})}
    \cup {Outcome("exception", "", <<>>), Outcome("done", "", <<>>)}

\* The result of one next() on the generator: the item it yields (a
\* one-element sequence, or <<>> for StopIteration), the generator's, the
\* reply's and the history's new state, and the failure this step met, if
\* any ("" for none).
Pulled(item, g, reply, history, failed) ==
    [item |-> item, gen |-> g, ai_reply |-> reply, history |-> history,
     failure |-> failed]

StopIteration == <<>>

\* Lines 113-122 of call_api_stream: the end of the response.
Finish(reply, history, failed) ==
    Pulled(StopIteration, "ended", reply,
           IF Strip(reply) # <<>>
           THEN add_to_history(history, "assistant", Strip(reply))
           ELSE history,
           failed)

\* Mutant of StreamStep: an exception of the response iterator is always
\* swallowed, also when nothing was received yet.
StreamStepSwallows(o, reply, history) ==
    CASE o.kind = "content" ->
            Pulled(<<o.text>>, "streaming", reply \o o.text, history, "")
      [] o.kind = "exception" ->
            Finish(reply, history,
                   IF reply = <<>> THEN "stream_first" ELSE "stream_mid")
      [] o.kind = "done" -> Finish(reply, history, "")

\* Mutant of StreamStep: an exception of the response iterator is always
\* raised again, also after fragments were received.
StreamStepRaises(o, reply, history) ==
    CASE o.kind = "content" ->
            Pulled(<<o.text>>, "streaming", reply \o o.text, history, "")
      [] o.kind = "exception" ->
            Pulled(<<MSG_TECHNICAL>>, "apologized", reply, history,
                   IF reply = <<>> THEN "stream_first" ELSE "stream_mid")
      [] o.kind = "done" -> Finish(reply, history, "")

\* Lines 85-112 and 128-132 of call_api_stream: one step of the loop over
\* the response.
StreamStep(o, reply, history) ==
    CASE o.kind = "content" ->
            Pulled(<<o.text>>, "streaming", reply \o o.text, history, "")
      [] o.kind = "exception" ->
            IF reply = <<>>
            THEN Pulled(<<MSG_TECHNICAL>>, "apologized", reply, history,
                        "stream_first")
            ELSE Finish(reply, history, "stream_mid")
      [] o.kind = "done" -> Finish(reply, history, "")

\* Lines 58-80 and 123-127 of call_api_stream: the message for a request
\* that did not give a 200 response.
RequestMessage(how) ==
    CASE how = "connection" -> MSG_CONNECT
      [] how = "timeout"    -> MSG_TIMEOUT
      [] how = "other"      -> MSG_NETWORK
      [] how = "status"     -> MSG_HTTP_ERROR

\* payload["messages"] (lines 48-51), after the system prompt: the
\* conversation history at the time of the request, the user message that
\* line 41 added included.
RequestMessages(history) == history

\* DeepSeekModel.call_api_stream from its first line to its first yield.
call_api_stream(o, user_message, history) ==
    LET h == add_to_history(history, "user", user_message) IN
    IF o.kind = "request_failed"
    THEN Pulled(<<RequestMessage(o.how)>>, "apologized", <<>>, h, o.how)
    ELSE StreamStep(o, <<>>, h)

\* Mutant of call_ai_api_stream: the user message is recorded before the
\* model is asked whether it is configured.
call_ai_api_stream_late(o, g, model, user_message, reply, history) ==
    CASE g = "new" /\ model = "none" ->
            Pulled(<<MSG_MANAGER_ISSUE>>, "apologized", reply, history,
                   "no_model")
      [] g = "new" /\ model = "no_key" ->
            Pulled(<<MSG_NOT_CONFIGURED>>, "apologized", reply,
                   add_to_history(history, "user", user_message), "")
      [] g = "new" /\ model = "ok" ->
            call_api_stream(o, user_message, history)
      [] g = "streaming" -> StreamStep(o, reply, history)
      [] g \in {"apologized", "ended"} ->
            Pulled(StopIteration, "ended", reply, history, "")

\* ModelManager.call_ai_api_stream: one next() on the generator.
call_ai_api_stream(o, g, model, user_message, reply, history) ==
    CASE g = "new" /\ model = "none" ->
            Pulled(<<MSG_MANAGER_ISSUE>>, "apologized", reply, history,
                   "no_model")
      [] g = "new" /\ model = "no_key" ->
            Pulled(<<MSG_NOT_CONFIGURED>>, "apologized", reply, history, "")
      [] g = "new" /\ model = "ok" ->
            call_api_stream(o, user_message, history)
      [] g = "streaming" -> StreamStep(o, reply, history)
      [] g \in {"apologized", "ended"} ->
            Pulled(StopIteration, "ended", reply, history, "")

\* The outcomes upstream can have at this pull.
Outcomes(g, model, budget) ==
    IF g = "new" /\ model = "ok"
    THEN RequestFailures \cup StreamOutcomes(budget)
    ELSE IF g = "streaming" THEN StreamOutcomes(budget)
    ELSE {Outcome("done", "", <<>>)}

---------------------------------------------------------------------------
(* Speech synthesis: create_tts_audio over TTSManager.synthesize.          *)

\* The rate of the audio the provider returns.
TtsSampleRate == 24000

TtsOutcomes == {"ok", "unavailable", "failed"}

None == <<>>

\* Mutant of create_tts_audio: the result of the provider is not tested.
create_tts_audio_unchecked(text, outcome) ==
    <<[sample_rate |-> TtsSampleRate, sourceText |-> Strip(text)]>>

\* create_tts_audio(text): None when the manager is not available, when the
\* text is blank, or when the provider fails, raises or times out;
\* otherwise the audio, with the text it renders.
create_tts_audio(text, outcome) ==
    IF outcome = "unavailable" THEN None
    ELSE IF Strip(text) = <<>> THEN None
    ELSE IF outcome = "ok"
         THEN <<[sample_rate |-> TtsSampleRate, sourceText |-> Strip(text)]>>
         ELSE None

---------------------------------------------------------------------------
(* response_handler.                                                       *)

\* min_tts_length (line 357).
min_tts_length == 3

\* A milestone that is still None.
Unset == 0

\* One create_tts_audio call: the stripped text passed, the text_buffer it
\* was stripped from, where in the handler it was made, its tts_start_time
\* (lines 375 and 396), and its result ("pending" while the call has not
\* returned).
Call(text, pending, phase) ==
    [text |-> text, pending |-> pending, phase |-> phase,
     tts_start_time |-> clock, result |-> "pending"]

\* A yielded tts_result, with the call that produced it.
Segment(audio, call) ==
    [sample_rate |-> audio.sample_rate, sourceText |-> audio.sourceText,
     call |-> call]

\* Mutant of ShouldFlush: the threshold itself does not flush.
ShouldFlushAbove(buffer) == Len(Strip(buffer)) > min_tts_length

\* len(text_buffer.strip()) >= min_tts_length (line 369).
ShouldFlush(buffer) == Len(Strip(buffer)) >= min_tts_length

\* Mutant of HasRemainder: the final flush keeps the minimum length.
HasRemainderAtThreshold(buffer) == Len(Strip(buffer)) >= min_tts_length

\* text_buffer.strip() is not empty (line 394).
HasRemainder(buffer) == Strip(buffer) # <<>>

\* Mutant of AtLoopHead: the next fragment is pulled while a synthesis call
\* of the loop has not returned.
AtLoopHeadOrSynthesizing == pc \in {"gen", "tts"}

\* The handler is at the head of the for loop, about to pull a fragment.
AtLoopHead == pc = "gen"

\* Mutant of SetOnce: the milestone is assigned whether or not it is set.
SetAlways(value, now) == now

\* if x is None: x = time.time()
SetOnce(value, now) == IF value = Unset THEN now ELSE value

EndTurn(state, why) ==
    /\ pc' = state
    /\ reason' = why

\* Lines 111-251: the audio is conditioned, or the turn ends.
Condition ==
    /\ pc = "start"
    /\ metrics' = [metrics EXCEPT !.total_start_time = clock]
    /\ clock' = clock + 1
    /\ IF Conditioner(input).ok
       THEN EndTurn("stt", reason)
       ELSE EndTurn("rejected", Verdict(Conditioner(input).reason, <<>>))
    /\ UNCHANGED <<added, env, input, peer, payload, stt_calls, transcription,
                   conversation_history, gen, ai_reply, failure, frags,
                   text_buffer, calls, yielded>>

\* Mutant of Transcribe: transcribe is called without asking is_loaded
\* first, and raises when the model is not loaded.
TranscribeUnasked ==
    /\ pc = "stt"
    /\ clock' = clock + 1
    /\ stt_calls' = Append(stt_calls, Conditioner(input).audio)
    /\ IF ~env.stt_ready \/ env.stt.kind = "raise"
       THEN /\ EndTurn("rejected", Verdict("stt_failed", <<>>))
            /\ UNCHANGED transcription
       ELSE /\ transcription' = Strip(env.stt.text)
            /\ IF GateAndFilter(env.stt).kind = ""
               THEN EndTurn("gen", reason)
               ELSE EndTurn("rejected", GateAndFilter(env.stt))
    /\ UNCHANGED <<added, env, input, peer, payload,
                   conversation_history, gen, ai_reply,
                   failure, frags, text_buffer, calls, yielded, metrics>>

\* Mutant of Transcribe: the transcript is added to the history before it
\* is gated and filtered.
TranscribeRecordsFirst ==
    /\ pc = "stt"
    /\ clock' = clock + 1
    /\ IF ~env.stt_ready
       THEN /\ EndTurn("rejected", Verdict("stt_unavailable", <<>>))
            /\ UNCHANGED <<stt_calls, transcription, conversation_history>>
       ELSE /\ stt_calls' = Append(stt_calls, Conditioner(input).audio)
            /\ IF env.stt.kind = "raise"
               THEN /\ EndTurn("rejected", Verdict("stt_failed", <<>>))
                    /\ UNCHANGED <<transcription, conversation_history>>
               ELSE /\ transcription' = Strip(env.stt.text)
                    /\ conversation_history' =
                         add_to_history(conversation_history, "user",
                                        Strip(env.stt.text))
                    /\ IF GateAndFilter(env.stt).kind = ""
                       THEN EndTurn("gen", reason)
                       ELSE EndTurn("rejected", GateAndFilter(env.stt))
    /\ UNCHANGED <<added, env, input, peer, payload,
                   gen, ai_reply, failure, frags, text_buffer,
                   calls, yielded, metrics>>

\* Lines 253-350: the transcriber is called, its result is gated and
\* filtered, and the turn ends or reaches the streaming loop.
Transcribe ==
    /\ pc = "stt"
    /\ clock' = clock + 1
    /\ IF ~env.stt_ready
       THEN /\ EndTurn("rejected", Verdict("stt_unavailable", <<>>))
            /\ UNCHANGED <<stt_calls, transcription>>
       ELSE /\ stt_calls' = Append(stt_calls, Conditioner(input).audio)
            /\ IF env.stt.kind = "raise"
               THEN /\ EndTurn("rejected", Verdict("stt_failed", <<>>))
                    /\ UNCHANGED transcription
               ELSE /\ transcription' = Strip(env.stt.text)
                    /\ IF GateAndFilter(env.stt).kind = ""
                       THEN EndTurn("gen", reason)
                       ELSE EndTurn("rejected", GateAndFilter(env.stt))
    /\ UNCHANGED <<added, env, input, peer, payload,
                   conversation_history, gen, ai_reply,
                   failure, frags, text_buffer, calls, yielded, metrics>>

\* Lines 360-378: the loop pulls the next fragment, appends it and, at the
\* threshold, calls create_tts_audio; or the stream ends.
NextFragment ==
    /\ AtLoopHead
    /\ \E o \in Outcomes(gen, env.model, env.budget - Len(frags)) :
        LET p == call_ai_api_stream(o, gen, env.model, transcription,
                                    ai_reply, conversation_history)
        IN  /\ gen' = p.gen
            /\ ai_reply' = p.ai_reply
            /\ failure' = IF p.failure # "" THEN p.failure ELSE failure
            /\ conversation_history' = p.history
            /\ payload' = IF gen = "new" /\ env.model = "ok"
                          THEN RequestMessages(p.history) ELSE payload
            /\ IF p.item = StopIteration
               THEN /\ pc' = "drain"
                    /\ UNCHANGED <<frags, text_buffer, calls, metrics>>
               ELSE LET buffer == text_buffer \o p.item[1]
                        flush == ShouldFlush(buffer)
                    IN  /\ frags' = Append(frags, p.item[1])
                        /\ text_buffer' = buffer
                        /\ metrics' =
                             [metrics EXCEPT
                                !.first_token_received_time =
                                    SetOnce(@, clock),
                                !.first_tts_start_time =
                                    IF flush THEN SetOnce(@, clock) ELSE @]
                        /\ calls' =
                             IF flush
                             THEN Append(calls,
                                         Call(Strip(buffer), buffer, "loop"))
                             ELSE calls
                        /\ pc' = IF flush THEN "tts" ELSE "gen"
    /\ clock' = clock + 1
    /\ UNCHANGED <<added, env, input, peer, reason, stt_calls, transcription,
                   yielded>>

\* Lines 394-397: after the loop, the remaining text is synthesized if it
\* is not blank.
FinalFlush ==
    /\ pc = "drain"
    /\ IF HasRemainder(text_buffer)
       THEN /\ calls' = Append(calls,
                               Call(Strip(text_buffer), text_buffer, "final"))
            /\ pc' = "tts_final"
       ELSE /\ calls' = calls
            /\ pc' = "done"
    /\ clock' = clock + 1
    /\ UNCHANGED <<added, env, input, peer, payload, reason, stt_calls,
                   transcription, conversation_history, gen, ai_reply,
                   failure, frags, text_buffer, yielded, metrics>>

\* Mutant of TtsReturn: an unavailable synthesizer ends the turn.
TtsReturnFatal ==
    /\ pc \in {"tts", "tts_final"}
    /\ \E outcome \in TtsOutcomes :
        LET n == Len(calls)
            tts_result == create_tts_audio(calls[n].text, outcome)
        IN  /\ calls' = [calls EXCEPT ![n].result = outcome]
            /\ IF tts_result # None
               THEN /\ yielded' = Append(yielded, Segment(tts_result[1], n))
                    /\ metrics' =
                         IF pc = "tts"
                         THEN [metrics EXCEPT
                                 !.first_audio_ready_time = SetOnce(@, clock)]
                         ELSE metrics
                    /\ pc' = IF pc = "tts" THEN "yield" ELSE "yield_final"
                    /\ UNCHANGED text_buffer
               ELSE /\ UNCHANGED <<yielded, metrics>>
                    /\ text_buffer' = IF pc = "tts" THEN <<>> ELSE text_buffer
                    /\ pc' = IF outcome = "unavailable" THEN "done"
                             ELSE IF pc = "tts" THEN "gen" ELSE "done"
    /\ clock' = clock + 1
    /\ UNCHANGED <<added, env, input, peer, payload, reason, stt_calls,
                   transcription, conversation_history, gen, ai_reply,
                   failure, frags>>

\* Mutant of TtsReturn: the text of a failed synthesis call of the loop
\* stays in text_buffer, to be sent again with the next fragment.
TtsReturnKeepsFailedText ==
    /\ pc \in {"tts", "tts_final"}
    /\ \E outcome \in TtsOutcomes :
        LET n == Len(calls)
            tts_result == create_tts_audio(calls[n].text, outcome)
        IN  /\ calls' = [calls EXCEPT ![n].result = outcome]
            /\ IF tts_result # None
               THEN /\ yielded' = Append(yielded, Segment(tts_result[1], n))
                    /\ metrics' =
                         IF pc = "tts"
                         THEN [metrics EXCEPT
                                 !.first_audio_ready_time = SetOnce(@, clock)]
                         ELSE metrics
                    /\ pc' = IF pc = "tts" THEN "yield" ELSE "yield_final"
               ELSE /\ UNCHANGED <<yielded, metrics>>
                    /\ pc' = IF pc = "tts" THEN "gen" ELSE "done"
    /\ clock' = clock + 1
    /\ UNCHANGED <<added, env, input, peer, payload, reason, stt_calls,
                   transcription, conversation_history, gen, ai_reply,
                   failure, frags, text_buffer>>

\* Mutant of TtsReturn: a failure of the provider is not caught, and the
\* exception leaves the handler.
TtsReturnPropagates ==
    /\ pc \in {"tts", "tts_final"}
    /\ \E outcome \in TtsOutcomes :
        LET n == Len(calls)
            tts_result == create_tts_audio(calls[n].text, outcome)
        IN  /\ calls' = [calls EXCEPT ![n].result = outcome]
            /\ IF tts_result # None
               THEN /\ yielded' = Append(yielded, Segment(tts_result[1], n))
                    /\ metrics' =
                         IF pc = "tts"
                         THEN [metrics EXCEPT
                                 !.first_audio_ready_time = SetOnce(@, clock)]
                         ELSE metrics
                    /\ pc' = IF pc = "tts" THEN "yield" ELSE "yield_final"
                    /\ UNCHANGED text_buffer
               ELSE /\ UNCHANGED <<yielded, metrics, text_buffer>>
                    /\ pc' = IF outcome = "failed" THEN "raised"
                             ELSE IF pc = "tts" THEN "gen" ELSE "done"
    /\ clock' = clock + 1
    /\ UNCHANGED <<added, env, input, peer, payload, reason, stt_calls,
                   transcription, conversation_history, gen, ai_reply,
                   failure, frags>>

\* Lines 378-392 and 397-402: create_tts_audio returns; its audio is
\* yielded, or the span is dropped and the handler goes on.
TtsReturn ==
    /\ pc \in {"tts", "tts_final"}
    /\ \E outcome \in TtsOutcomes :
        LET n == Len(calls)
            tts_result == create_tts_audio(calls[n].text, outcome)
        IN  /\ calls' = [calls EXCEPT ![n].result = outcome]
            /\ IF tts_result # None
               THEN /\ yielded' = Append(yielded, Segment(tts_result[1], n))
                    /\ metrics' =
                         IF pc = "tts"
                         THEN [metrics EXCEPT
                                 !.first_audio_ready_time = SetOnce(@, clock)]
                         ELSE metrics
                    /\ pc' = IF pc = "tts" THEN "yield" ELSE "yield_final"
                    /\ UNCHANGED text_buffer
               ELSE /\ UNCHANGED <<yielded, metrics>>
                    /\ text_buffer' = IF pc = "tts" THEN <<>> ELSE text_buffer
                    /\ pc' = IF pc = "tts" THEN "gen" ELSE "done"
    /\ clock' = clock + 1
    /\ UNCHANGED <<added, env, input, peer, payload, reason, stt_calls,
                   transcription, conversation_history, gen, ai_reply,
                   failure, frags>>

\* Mutant of Resume: text_buffer is not cleared after a yield.
ResumeKeepsBuffer ==
    /\ pc \in {"yield", "yield_final"}
    /\ pc' = IF pc = "yield" THEN "gen" ELSE "done"
    /\ UNCHANGED <<added, env, input, peer, payload, reason, stt_calls,
                   transcription, conversation_history, gen, ai_reply,
                   failure, frags, text_buffer, calls, yielded, clock,
                   metrics>>

\* Mutant of Resume: a closed generator can be resumed.
ResumeAfterClose ==
    /\ pc \in {"yield", "yield_final", "cancelled"}
    /\ text_buffer' = IF pc = "yield_final" THEN text_buffer ELSE <<>>
    /\ pc' = IF pc = "yield_final" THEN "done" ELSE "gen"
    /\ UNCHANGED <<added, env, input, peer, payload, reason, stt_calls,
                   transcription, conversation_history, gen, ai_reply,
                   failure, frags, calls, yielded, clock, metrics>>

\* The transport asks for the next segment: the handler continues after
\* its yield (line 392, or the report after line 402).
Resume ==
    /\ pc \in {"yield", "yield_final"}
    /\ text_buffer' = IF pc = "yield" THEN <<>> ELSE text_buffer
    /\ pc' = IF pc = "yield" THEN "gen" ELSE "done"
    /\ UNCHANGED <<added, env, input, peer, payload, reason, stt_calls,
                   transcription, conversation_history, gen, ai_reply,
                   failure, frags, calls, yielded, clock, metrics>>

\* The transport drops the turn on an interruption (can_interrupt=True,
\* line 460): the generator is closed where it is suspended, GeneratorExit
\* passes the handler's `except Exception` clauses, and the turn is over.
Cancel ==
    /\ pc \in {"yield", "yield_final"}
    /\ pc' = "cancelled"
    /\ UNCHANGED <<added, env, input, peer, payload, reason, stt_calls,
                   transcription, conversation_history, gen, ai_reply,
                   failure, frags, text_buffer, calls, yielded, clock,
                   metrics>>

---------------------------------------------------------------------------
(* A second call of response_handler, running while the first one does.   *)
(* Its locals are the fields of `peer`; the managers, and with them the   *)
(* model's conversation_history, are the globals of lines 39-41, the same *)
(* objects for every call.                                                 *)

\* The second call reads the clock the first call advances: readings of
\* the two calls can coincide.

\* What belongs to the first call alone.
turn_vars ==
    <<added, env, input, pc, reason, stt_calls, transcription, gen, ai_reply,
      failure, frags, text_buffer, calls, yielded, metrics, payload>>

\* Lines 111-251 in the second call.
PeerCondition ==
    /\ peer.pc = "start"
    /\ peer' = [peer EXCEPT
                  !.metrics.total_start_time = clock,
                  !.pc = IF Conditioner(peer.input).ok
                         THEN "stt" ELSE "rejected",
                  !.reason = IF Conditioner(peer.input).ok THEN @
                             ELSE Verdict(Conditioner(peer.input).reason,
                                          <<>>)]
    /\ UNCHANGED <<turn_vars, conversation_history, clock>>

\* Lines 253-350 in the second call.
PeerTranscribe ==
    /\ peer.pc = "stt"
    /\ peer' =
         IF ~env.stt_ready
         THEN [peer EXCEPT !.pc = "rejected",
                           !.reason = Verdict("stt_unavailable", <<>>)]
         ELSE IF peer.stt.kind = "raise"
         THEN [peer EXCEPT !.pc = "rejected",
                           !.stt_calls =
                               Append(@, Conditioner(peer.input).audio),
                           !.reason = Verdict("stt_failed", <<>>)]
         ELSE [peer EXCEPT
                  !.stt_calls = Append(@, Conditioner(peer.input).audio),
                  !.transcription = Strip(peer.stt.text),
                  !.pc = IF GateAndFilter(peer.stt).kind = ""
                         THEN "gen" ELSE "rejected",
                  !.reason = IF GateAndFilter(peer.stt).kind = "" THEN @
                             ELSE GateAndFilter(peer.stt)]
    /\ UNCHANGED <<turn_vars, conversation_history, clock>>

\* Lines 360-378 in the second call: the pull reads and writes the
\* conversation_history the first call reads and writes.
PeerNextFragment ==
    /\ peer.pc = "gen"
    /\ \E o \in Outcomes(peer.gen, env.model, env.budget - Len(peer.frags)) :
        LET p == call_ai_api_stream(o, peer.gen, env.model,
                                    peer.transcription, peer.ai_reply,
                                    conversation_history)
            buffer == IF p.item = StopIteration THEN peer.text_buffer
                      ELSE peer.text_buffer \o p.item[1]
            flush == p.item # StopIteration /\ ShouldFlush(buffer)
        IN  /\ conversation_history' = p.history
            /\ peer' =
                 [peer EXCEPT
                    !.gen = p.gen,
                    !.ai_reply = p.ai_reply,
                    !.failure = IF p.failure # "" THEN p.failure ELSE @,
                    !.payload = IF peer.gen = "new" /\ env.model = "ok"
                                THEN RequestMessages(p.history) ELSE @,
                    !.frags = IF p.item = StopIteration THEN @
                              ELSE Append(@, p.item[1]),
                    !.text_buffer = buffer,
                    !.metrics.first_token_received_time =
                        IF p.item = StopIteration THEN @
                        ELSE SetOnce(@, clock),
                    !.metrics.first_tts_start_time =
                        IF flush THEN SetOnce(@, clock) ELSE @,
                    !.calls = IF flush
                              THEN Append(@, Call(Strip(buffer), buffer,
                                                  "loop"))
                              ELSE @,
                    !.pc = IF p.item = StopIteration THEN "drain"
                           ELSE IF flush THEN "tts" ELSE "gen"]
    /\ UNCHANGED <<turn_vars, clock>>

\* Lines 394-397 in the second call.
PeerFinalFlush ==
    /\ peer.pc = "drain"
    /\ peer' =
         IF HasRemainder(peer.text_buffer)
         THEN [peer EXCEPT
                 !.calls = Append(@, Call(Strip(peer.text_buffer),
                                          peer.text_buffer, "final")),
                 !.pc = "tts_final"]
         ELSE [peer EXCEPT !.pc = "done"]
    /\ UNCHANGED <<turn_vars, conversation_history, clock>>

\* Lines 378-392 and 397-402 in the second call.
PeerTtsReturn ==
    /\ peer.pc \in {"tts", "tts_final"}
    /\ \E outcome \in TtsOutcomes :
        LET n == Len(peer.calls)
            tts_result == create_tts_audio(peer.calls[n].text, outcome)
            loop == peer.pc = "tts"
        IN  peer' =
              IF tts_result # None
              THEN [peer EXCEPT
                      !.calls[n].result = outcome,
                      !.yielded = Append(@, Segment(tts_result[1], n)),
                      !.metrics.first_audio_ready_time =
                          IF loop THEN SetOnce(@, clock) ELSE @,
                      !.pc = IF loop THEN "yield" ELSE "yield_final"]
              ELSE [peer EXCEPT
                      !.calls[n].result = outcome,
                      !.text_buffer = IF loop THEN <<>> ELSE @,
                      !.pc = IF loop THEN "gen" ELSE "done"]
    /\ UNCHANGED <<turn_vars, conversation_history, clock>>

\* The second call continues after its yield.
PeerResume ==
    /\ peer.pc \in {"yield", "yield_final"}
    /\ peer' = [peer EXCEPT
                  !.text_buffer = IF peer.pc = "yield" THEN <<>> ELSE @,
                  !.pc = IF peer.pc = "yield" THEN "gen" ELSE "done"]
    /\ UNCHANGED <<turn_vars, conversation_history, clock>>

\* The second call is closed at its yield by an interruption.
PeerCancel ==
    /\ peer.pc \in {"yield", "yield_final"}
    /\ peer' = [peer EXCEPT !.pc = "cancelled"]
    /\ UNCHANGED <<turn_vars, conversation_history, clock>>

Next ==
    \/ Condition
    \/ Transcribe
    \/ NextFragment
    \/ FinalFlush
    \/ TtsReturn
    \/ Resume
    \/ Cancel

---------------------------------------------------------------------------
(* The turns that are checked.                                             *)

Signal(rate, len, pat) == [rate |-> rate, len |-> len, pat |-> pat]

SttResult(text, permille) ==
    [kind |-> "result", text |-> text, no_speech_prob |-> permille]

SttRaises == [kind |-> "raise", text |-> <<>>, no_speech_prob |-> 0]

Env(ready, stt, model, budget) ==
    [stt_ready |-> ready, stt |-> stt, model |-> model, budget |-> budget]

\* The audio the transport can deliver: each rate with lengths around the
\* minimum duration and beyond the maximum, each carrying a constant, an
\* alternating, a slower square or an offset signal, faint or audible.
Rates == {24000, 48000}

Lengths(rate) ==
    {0, rate \div 2 - 2, rate \div 2 - 1, rate \div 2, 30 * rate + 2}

Patterns ==
    {<<0>>, <<1>>, <<50>>, <<1, -1>>, <<50, -50>>, <<50, 50, -50, -50>>,
     <<50, 1>>}

AudioInputs ==
    {Signal(rate, len, pat) :
        rate \in Rates, len \in UNION {Lengths(r) : r \in Rates},
        pat \in Patterns}

\* What the transcriber does with the audio it is given.
SttOutcomes ==
    {SttRaises,
     SttResult(<<" ", "h", "i", " ">>, 900),
     SttResult(<<" ", "h", "i", " ">>, 950),
     SttResult(SUBTITLE, 950),
     SttResult(<<" ">>, 0),
     SttResult(SUBTITLE, 0),
     SttResult(SUBTITLE_BY, 0),
     SttResult(SUBTITLE_BY_SOMEONE, 0)}

Envs ==
    {Env(ready, stt, model, MaxFrags) :
        ready \in BOOLEAN, stt \in SttOutcomes,
        model \in {"ok", "no_key", "none"}}

InitFrom(inputs, envs) ==
    /\ env \in envs
    /\ input \in inputs
    /\ pc = "start"
    /\ reason = Verdict("", <<>>)
    /\ stt_calls = <<>>
    /\ transcription = <<>>
    /\ conversation_history = <<>>
    /\ gen = "new"
    /\ ai_reply = <<>>
    /\ failure = ""
    /\ frags = <<>>
    /\ text_buffer = <<>>
    /\ calls = <<>>
    /\ yielded = <<>>
    /\ clock = 1
    /\ metrics = [total_start_time          |-> Unset,
                  first_token_received_time |-> Unset,
                  first_tts_start_time      |-> Unset,
                  first_audio_ready_time    |-> Unset]
    /\ payload = <<>>
    /\ added = <<>>

\* The locals of a response_handler call that has not started, and the
\* record that stands for no second call.
Locals(state, audio, stt) ==
    [pc |-> state, input |-> audio, stt |-> stt,
     reason |-> Verdict("", <<>>), stt_calls |-> <<>>,
     transcription |-> <<>>, gen |-> "new", ai_reply |-> <<>>,
     failure |-> "", frags |-> <<>>, text_buffer |-> <<>>, calls |-> <<>>,
     yielded |-> <<>>, payload |-> <<>>,
     metrics |-> [total_start_time          |-> Unset,
                  first_token_received_time |-> Unset,
                  first_tts_start_time      |-> Unset,
                  first_audio_ready_time    |-> Unset]]

NoPeer == Locals("absent", Signal(24000, 0, <<0>>), SttRaises)

\* Every turn on these inputs, with every behaviour of the transcriber,
\* the model, the stream and the synthesizer.
Init ==
    /\ InitFrom({a \in AudioInputs : a.len \in Lengths(a.rate)}, Envs)
    /\ peer = NoPeer

Spec == Init /\ [][Next]_vars

\* Two sessions, each with an utterance of its own, handled at the same
\* time (concurrency_limit, line 462, admits ten): every interleaving of
\* the two calls, with replies of at most ConcurrentFrags fragments.
ConcurrentFrags == 1

Utterance == Signal(24000, 12000, <<50, -50>>)

InitConcurrent ==
    /\ InitFrom({Utterance},
                {Env(TRUE, SttResult(<<"h", "i">>, 0), "ok",
                     ConcurrentFrags)})
    /\ peer = Locals("start", Utterance, SttResult(<<"y", "o">>, 0))

NextConcurrent ==
    \/ Next
    \/ PeerCondition
    \/ PeerTranscribe
    \/ PeerNextFragment
    \/ PeerFinalFlush
    \/ PeerTtsReturn
    \/ PeerResume
    \/ PeerCancel

Concurrent == InitConcurrent /\ [][NextConcurrent]_vars

\* Transcripts at and around the thresholds of the quality filter.
Repeat(text, n) == Join([i \in 1..n |-> text])

Spell(text, marks, digits) ==
    text \o Repeat(<<"!">>, marks) \o Repeat(<<"7">>, digits)

Fourteen ==
    <<"a", "b", "c", "d", "e", "f", "g", "h", "i", "j", "k", "l", "m", "n">>

FilterTranscripts ==
    {<<"h", "i">>,
     \* 20 marks in 67 characters, 21 in 70, 21 in 71
     Spell(Repeat(Fourteen, 3) \o SubSeq(Fourteen, 1, 5), 20, 0),
     Spell(Repeat(Fourteen, 3) \o SubSeq(Fourteen, 1, 7), 21, 0),
     Spell(Repeat(Fourteen, 3) \o SubSeq(Fourteen, 1, 8), 21, 0),
     \* 3 marks in 10 characters, 4 in 13
     Spell(SubSeq(Fourteen, 1, 7), 3, 0),
     Spell(SubSeq(Fourteen, 1, 9), 4, 0),
     \* 3 letters in 10 characters, 2 in 10, 5 in 17
     Spell(SubSeq(Fourteen, 1, 3), 0, 7),
     Spell(SubSeq(Fourteen, 1, 2), 0, 8),
     Spell(SubSeq(Fourteen, 1, 5), 0, 12),
     \* one character 10, 11 times; 3 characters in 15; 2 in 11
     Repeat(<<"a">>, 10),
     Repeat(<<"a">>, 11),
     Repeat(<<"a", "b", "c">>, 5),
     Repeat(<<"a">>, 10) \o <<"b">>,
     \* more than 200 characters with "love you"; the phrase alone
     Repeat(I_LOVE_YOU \o <<" ">>, 19),
     I_LOVE_YOU,
     \* phrases of the two lists
     SUBTITLE_BY, THANKS, CAPTIONS}

\* Turns on one utterance that the transcriber renders as each of these
\* transcripts, with replies of at most FilterFrags fragments.
FilterFrags == 1

InitFiltering ==
    /\ InitFrom({Utterance},
                {Env(TRUE, SttResult(text, 0), "ok", FilterFrags) :
                    text \in FilterTranscripts})
    /\ peer = NoPeer

Filtering == InitFiltering /\ [][Next]_vars

\* The turns checked for termination: an utterance that passes every
\* check, each way the model can be configured, streams of up to LiveFrags
\* fragments. The stream is finite, each create_tts_audio call returns and
\* the transport either asks for the next segment or closes the generator,
\* so a step that can be taken is eventually taken.
LiveFrags == 2

InitTerminating ==
    /\ InitFrom({Utterance},
                {Env(TRUE, SttResult(<<" ", "h", "i", " ">>, 900), model,
                     LiveFrags) : model \in {"ok", "no_key", "none"}})
    /\ peer = NoPeer

Terminating == InitTerminating /\ [][Next]_vars /\ WF_vars(Next)

\* The turns checked for the sample rate conversion: every rate that
\* validate_config accepts (app_config.py, line 188), at lengths from the
\* minimum duration on, with signals whose every second sample differs
\* from the signal itself, and an utterance that passes every check.
ConfigRates == {8000, 16000, 22050, 24000, 44100, 48000}

RateLengths(rate) == {rate \div 2, rate \div 2 + 1, rate, rate + 1}

RatePatterns ==
    {<<50, 50, -50, -50>>, <<50, 10, -50, -10>>, <<50, -20, -30>>}

ResampleFrags == 1

InitResampling ==
    /\ InitFrom(UNION {{Signal(rate, len, pat) :
                            len \in RateLengths(rate), pat \in RatePatterns} :
                        rate \in ConfigRates},
                {Env(TRUE, SttResult(<<" ", "h", "i", " ">>, 900), "ok",
                     ResampleFrags)})
    /\ peer = NoPeer

Resampling == InitResampling /\ [][Next]_vars

\* add_to_history called on a model directly, any number of times: the
\* model has had nearly HistoryLimit entries added, and more are added,
\* each with either role and one of two contents, until MaxAdds entries
\* were added beyond HistoryLimit.
MaxAdds == 4

Entry(i) ==
    [role |-> IF i % 2 = 1 THEN "user" ELSE "assistant",
     content |-> Repeat(<<"x">>, i)]

Earlier(n) == [i \in 1..n |-> Entry(i)]

AddToHistory ==
    /\ Len(added) < HistoryLimit + MaxAdds
    /\ \E role \in {"user", "assistant"}, content \in {<<"a">>, <<"b">>} :
        /\ conversation_history' =
              add_to_history(conversation_history, role, content)
        /\ added' = Append(added, [role |-> role, content |-> content])
    /\ UNCHANGED <<env, input, pc, reason, stt_calls, transcription, gen,
                   ai_reply, failure, frags, text_buffer, calls, yielded,
                   clock, metrics, payload, peer>>

InitHistory ==
    /\ \E n \in (HistoryLimit - 2)..HistoryLimit :
          /\ added = Earlier(n)
          /\ conversation_history = Earlier(n)
    /\ env = Env(TRUE, SttRaises, "ok", 0)
    /\ input = Utterance
    /\ pc = "absent"
    /\ reason = Verdict("", <<>>)
    /\ stt_calls = <<>>
    /\ transcription = <<>>
    /\ gen = "new"
    /\ ai_reply = <<>>
    /\ failure = ""
    /\ frags = <<>>
    /\ text_buffer = <<>>
    /\ calls = <<>>
    /\ yielded = <<>>
    /\ clock = 1
    /\ metrics = NoPeer.metrics
    /\ payload = <<>>
    /\ peer = NoPeer

History == InitHistory /\ [][AddToHistory]_vars



---------------------------------------------------------------------------
(* Properties.                                                             *)

\* The stripped texts of the yielded segments, in order.
SourceTexts == [i \in 1..Len(yielded) |-> yielded[i].sourceText]

\* The text_buffer values the create_tts_audio calls were made from.
Pendings == [i \in 1..Len(calls) |-> calls[i].pending]

AllSucceeded == \A i \in 1..Len(calls) : calls[i].result = "ok"

\* s is a prefix of t.
IsPrefix(s, t) == Len(s) <= Len(t) /\ SubSeq(t, 1, Len(s)) = s

\* The text without any whitespace character.
Unblanked(s) == Filter(s, {s[i] : i \in 1..Len(s)} \ Whitespace)

\* A turn that ran to its end on a stream that ended without an error, with
\* every synthesis call succeeding.
SuccessfulTurn ==
    pc = "done" /\ env.model = "ok" /\ failure = "" /\ AllSucceeded

\* What is left in text_buffer that no call was made from.
Unflushed ==
    IF calls # <<>> /\ calls[Len(calls)].phase = "final"
    THEN <<>> ELSE text_buffer

\* C1, as the spec states it: in a successful turn the texts of the yielded
\* segments, concatenated, are exactly the fragments, concatenated.
C1_RoundTripExact ==
    SuccessfulTurn => Join(SourceTexts) = Join(frags)

\* C1, amended: in a successful turn the fragments, concatenated, split
\* into consecutive spans, one per yielded segment in order, followed by a
\* remainder of whitespace only; each segment's text is its span without
\* the whitespace at its two ends.  So the segments hold every
\* non-whitespace character of the reply once and in order.
C1_RoundTripModuloStrip ==
    SuccessfulTurn =>
        /\ Len(yielded) = Len(calls)
        /\ \A i \in 1..Len(yielded) :
              /\ yielded[i].call = i
              /\ yielded[i].sourceText = Strip(calls[i].pending)
        /\ Join(Pendings) \o Unflushed = Join(frags)
        /\ Strip(Unflushed) = <<>>
        /\ Unblanked(Join(SourceTexts)) = Unblanked(Join(frags))

\* A successful turn of two segments in which stripping removed something.
C1_Witness ==
    /\ SuccessfulTurn
    /\ Len(yielded) = 2
    /\ yielded[2].sourceText # calls[2].pending

\* Synthesis calls that have not returned.
InFlight == {i \in 1..Len(calls) : calls[i].result = "pending"}

\* C2: segments are yielded in the order of the calls that made them, the
\* calls are made from consecutive spans of the stream, at most one call
\* is in flight, and while one is in flight no fragment is pulled.
C2_OrderedAndSequential ==
    /\ [](/\ Cardinality(InFlight) <= 1
          /\ IsPrefix(Join(Pendings), Join(frags))
          /\ \A i \in 1..Len(yielded) :
                /\ yielded[i].call \in 1..Len(calls)
                /\ yielded[i].sourceText = calls[yielded[i].call].text
                /\ \A j \in 1..Len(yielded) :
                      i < j => yielded[i].call < yielded[j].call)
    /\ [][InFlight # {} => frags' = frags /\ gen' = gen]_vars

\* A second synthesis call is in flight after a first segment was yielded.
C2_Witness ==
    /\ InFlight # {}
    /\ Len(yielded) >= 1
    /\ Len(calls) >= 2

\* The fragments of the spec's example.
FragA == <<"a">>
FragB == <<"b">>
FragCD == <<"c", "d">>

\* C3: in the loop, appending a fragment makes a synthesis call exactly
\* when the stripped buffer has 3 characters or more, and the call gets the
\* stripped buffer; for a, b, cd there is no call after a or after ab and
\* one call, with abcd, after cd, also once the stream has ended.
C3_FlushAtThreshold ==
    /\ [][frags' # frags =>
            LET buffer == text_buffer \o frags'[Len(frags')] IN
            IF Len(Strip(buffer)) >= 3
            THEN /\ Len(calls') = Len(calls) + 1
                 /\ calls'[Len(calls')].text = Strip(buffer)
                 /\ calls'[Len(calls')].result = "pending"
            ELSE calls' = calls]_vars
    /\ [](/\ frags \in {<<FragA>>, <<FragA, FragB>>} /\ pc = "gen"
             => calls = <<>>
          /\ frags = <<FragA, FragB, FragCD>>
             => /\ Len(calls) = 1
                /\ calls[1].text = <<"a", "b", "c", "d">>)

\* The turn on a, b, cd ran to its end.
C3_Witness ==
    /\ frags = <<FragA, FragB, FragCD>>
    /\ pc = "done"
    /\ Len(yielded) = 1

\* C4: when the stream has ended, one call is made with the stripped
\* buffer if that is not empty, whatever its length, and none otherwise;
\* after that call no further call is made.
C4_FinalFlush ==
    [][/\ pc = "drain" =>
            IF Strip(text_buffer) # <<>>
            THEN /\ Len(calls') = Len(calls) + 1
                 /\ calls'[Len(calls')].text = Strip(text_buffer)
                 /\ SubSeq(calls', 1, Len(calls)) = calls
            ELSE calls' = calls /\ pc' = "done"
       /\ pc \in {"tts_final", "yield_final", "done"} =>
            Len(calls') = Len(calls)]_vars

\* A final flush of a text shorter than the threshold was yielded.
C4_Witness ==
    /\ pc = "done"
    /\ calls # <<>>
    /\ calls[Len(calls)].phase = "final"
    /\ Len(calls[Len(calls)].text) < 3
    /\ yielded # <<>>
    /\ yielded[Len(yielded)].call = Len(calls)

\* The yielded segments that came from call n.
SegmentsOf(n) == {i \in 1..Len(yielded) : yielded[i].call = n}

\* C5: a synthesis call that fails yields no segment and does not end the
\* turn: after a failed call of the loop the handler is back at the head
\* of the loop with the stream as it was, and every call that succeeds is
\* yielded, with its text, whatever failed before it.
C5_FailedSynthesisDropped ==
    /\ [](\A n \in 1..Len(calls) :
            /\ calls[n].result \in {"failed", "unavailable", "pending"}
               => SegmentsOf(n) = {}
            /\ calls[n].result = "ok"
               => \E i \in SegmentsOf(n) :
                     /\ SegmentsOf(n) = {i}
                     /\ yielded[i].sourceText = calls[n].text)
    /\ [][pc = "tts" /\ calls'[Len(calls)].result # "ok"
            => /\ pc' = "gen"
               /\ yielded' = yielded
               /\ gen' = gen
               /\ frags' = frags]_vars

\* A span was synthesized and yielded after an earlier one had failed.
C5_Witness ==
    \E m, n \in 1..Len(calls) :
        /\ m < n
        /\ calls[m].result = "failed"
        /\ calls[n].result = "ok"
        /\ SegmentsOf(n) # {}

\* Text generation failed with nothing received.
FailedBeforeFirst ==
    failure \in {"no_model", "connection", "timeout", "other", "status",
                 "stream_first"}

\* The fixed text the stream yields after such a failure.
ApologyFor(how) ==
    CASE how = "no_model"     -> MSG_MANAGER_ISSUE
      [] how = "connection"   -> MSG_CONNECT
      [] how = "timeout"      -> MSG_TIMEOUT
      [] how = "other"        -> MSG_NETWORK
      [] how = "status"       -> MSG_HTTP_ERROR
      [] how = "stream_first" -> MSG_TECHNICAL

\* C6: when text generation fails before any fragment, the turn never
\* yields more than one segment, and when it has ended with the
\* synthesizer working it has yielded exactly one, whose text is the fixed
\* apology of that failure.
C6_OneApology ==
    FailedBeforeFirst =>
        /\ Len(yielded) <= 1
        /\ Len(calls) <= 1
        /\ pc \in {"done", "cancelled"} /\ AllSucceeded =>
              /\ Len(yielded) = 1
              /\ yielded[1].sourceText = ApologyFor(failure)

\* A turn whose response iterator raised at once ended with its apology.
C6_Witness ==
    /\ failure = "stream_first"
    /\ pc = "done"
    /\ Len(yielded) = 1

Sorry == <<"S", "o", "r", "r", "y">>

\* C7: when text generation fails after a fragment was received, the
\* stream just ends: the handler makes its final flush of what is pending
\* and finishes, and nothing it received, synthesized or yielded in the
\* turn is an apology.
C7_NoApologyMidStream ==
    failure = "stream_mid" =>
        /\ frags # <<>>
        /\ Join(frags) = ai_reply
        /\ \A i \in 1..Len(frags) : ~Contains(frags[i], Sorry)
        /\ \A n \in 1..Len(calls) : ~Contains(calls[n].text, Sorry)
        /\ \A i \in 1..Len(yielded) : ~Contains(yielded[i].sourceText, Sorry)
        /\ pc \in {"drain", "tts_final", "yield_final", "done", "cancelled"}
        /\ pc \in {"tts_final", "yield_final", "done"}
           /\ Strip(text_buffer) # <<>>
           => /\ calls[Len(calls)].phase = "final"
              /\ calls[Len(calls)].text = Strip(text_buffer)

\* A turn that failed mid-stream flushed its pending text and ended.
C7_Witness ==
    /\ failure = "stream_mid"
    /\ pc = "done"
    /\ yielded # <<>>
    /\ calls[Len(calls)].phase = "final"
    /\ yielded[Len(yielded)].call = Len(calls)

\* C8: a turn whose generator was closed stays closed: it pulls no
\* fragment, makes no synthesis call and yields no segment any more.
C8_CancelledIsTerminal ==
    [][pc = "cancelled" =>
          /\ pc' = "cancelled"
          /\ frags' = frags
          /\ gen' = gen
          /\ calls' = calls
          /\ yielded' = yielded]_vars

\* A turn was cancelled while its stream was still open.
C8_Witness ==
    /\ pc = "cancelled"
    /\ gen = "streaming"
    /\ Len(frags) < env.budget

\* Nothing was invoked and nothing was yielded.
NothingDone ==
    /\ stt_calls = <<>>
    /\ gen = "new"
    /\ frags = <<>>
    /\ calls = <<>>
    /\ yielded = <<>>

\* C9, as the spec states it: an input whose sample count divided by its
\* sample rate is below 0.5 s invokes nothing and yields nothing.
C9_ShortInputRejected ==
    input.len * 1000 < 500 * input.rate => NothingDone

\* C9, amended: the duration is the one the conditioner measures, after a
\* 48 kHz input was decimated to every second sample at 24 kHz (an odd
\* count n becomes (n + 1) / 2 samples): when that is below 0.5 s the turn
\* invokes nothing and yields nothing.
C9_ShortAudioRejected ==
    LET n == IF input.rate = 48000 THEN (input.len + 1) \div 2
             ELSE input.len
        r == IF input.rate = 48000 THEN 24000 ELSE input.rate
    IN  n * 1000 < 500 * r => NothingDone

\* A 48 kHz input of under half a second was rejected as too short.
C9_Witness ==
    /\ pc = "rejected"
    /\ reason.kind = "short"
    /\ input.rate = 48000
    /\ input.len > 0

\* Every sample of the input has the same value.
ConstantInput == \A i \in 1..Len(input.pat) : input.pat[i] = input.pat[1]

\* The input is not empty and, as conditioned, lasts 0.5 s or more.
LongEnough ==
    /\ input.len > 0
    /\ ~(Resample(input).len * 1000 < 500 * Resample(input).rate)

\* C10, as the spec states it: a constant input of sufficient duration,
\* zero included, is rejected as a flat signal.
C10_ConstantIsFlat ==
    pc # "start" /\ LongEnough /\ ConstantInput =>
        /\ pc = "rejected"
        /\ reason.kind = "flat"
        /\ NothingDone

\* C10, amended: a constant int16 input of sufficient duration is rejected
\* as a flat signal when its value is not zero and as silence when its
\* value is zero; either way nothing is invoked and nothing is yielded.
C10_ConstantIsFlatOrSilent ==
    pc # "start" /\ LongEnough /\ ConstantInput =>
        /\ pc = "rejected"
        /\ reason.kind = (IF input.pat[1] = 0 THEN "silent" ELSE "flat")
        /\ NothingDone

\* A faint constant signal, amplified, was rejected as flat.
C10_Witness ==
    /\ pc = "rejected"
    /\ reason.kind = "flat"
    /\ ConstantInput
    /\ input.pat[1] = 1
    /\ LongEnough

\* The transcriber was called and returned this text with a low no-speech
\* probability.
Transcribed(text) ==
    /\ stt_calls # <<>>
    /\ env.stt.kind = "result"
    /\ env.stt.text = text
    /\ env.stt.no_speech_prob <= NoSpeechLimit

\* C11: a transcript that is exactly one phrase of bad_strings ends the
\* turn with no segment, and the reason reported names that phrase.
C11_DenyListedPhraseNamed ==
    \A i \in 1..Len(bad_strings) :
        Transcribed(bad_strings[i]) =>
            /\ pc = "rejected"
            /\ yielded = <<>>
            /\ reason.detail = bad_strings[i]


\* The transcriber was called and returned a result.
SttReturned == stt_calls # <<>> /\ env.stt.kind = "result"

\* The turn was ended by the gate and by no rule of the quality filter.
GateRejected == pc = "rejected" /\ reason.kind = "no_speech"

\* C12: the gate ends the turn exactly when the transcript is empty after
\* trimming or the no-speech probability is above 0.9 (900 thousandths
\* pass); a turn it ends has yielded nothing, has called neither the model
\* nor the synthesizer, and carries the gate's reason, not one of a rule of
\* the quality filter.
C12_GateRejectsExactly ==
    SttReturned =>
        /\ GateRejected <=>
              (Strip(env.stt.text) = <<>> \/ env.stt.no_speech_prob > 900)
        /\ GateRejected =>
              yielded = <<>> /\ calls = <<>> /\ gen = "new" /\ frags = <<>>

\* A transcript the quality filter would reject came with a no-speech
\* probability of 0.95 and was rejected by the gate.
C12_Witness ==
    /\ SttReturned
    /\ GateRejected
    /\ env.stt.no_speech_prob = 950
    /\ is_bad_pattern(Strip(env.stt.text))


\* The reasons the audio conditioner, the transcription gate and the
\* quality filter end a turn with.
ConditionerReasons == {"empty", "short", "silent", "short_samples", "flat"}

GateReasons == {"no_speech"}

FilterReasons ==
    {"bad_string", "exclamations", "repetition", "love_loop", "low_alpha",
     "hallucination"}

\* C13: a turn the conditioner, the gate or the quality filter rejected
\* has made no synthesis call and no call of the text generator, has
\* yielded no segment and has left the model's conversation history as it
\* was at the start of the turn.
C13_RejectedTurnHasNoEffect ==
    /\ pc = "rejected"
    /\ reason.kind \in ConditionerReasons \cup GateReasons \cup FilterReasons
    => /\ calls = <<>>
       /\ gen = "new"
       /\ frags = <<>>
       /\ yielded = <<>>
       /\ conversation_history = <<>>

\* A transcript was rejected by the quality filter.
C13_Witness ==
    /\ pc = "rejected"
    /\ reason.kind \in FilterReasons
    /\ transcription # <<>>


\* C14: a transcriber that is not ready is never called; when it is not
\* ready or its call raises, the turn yields nothing (no apology is
\* synthesized) and never invokes the text generator; and transcribe is
\* called at most once in a turn.
C14_TranscriberFailureEndsTurn ==
    /\ ~env.stt_ready => stt_calls = <<>>
    /\ Len(stt_calls) <= 1
    /\ (~env.stt_ready \/ env.stt.kind = "raise") =>
          /\ pc \in {"start", "stt", "rejected"}
          /\ yielded = <<>>
          /\ calls = <<>>
          /\ gen = "new"
          /\ frags = <<>>

\* Conditioned audio reached a transcriber that was not ready, and the
\* turn ended there.
C14_Witness ==
    /\ pc = "rejected"
    /\ ~env.stt_ready
    /\ Conditioner(input).ok
    /\ reason.kind = "stt_unavailable"


\* The milestones of the turn in the order they are listed: turn start,
\* first token, first synthesis start, first audio ready.
Milestones ==
    <<metrics.total_start_time, metrics.first_token_received_time,
      metrics.first_tts_start_time, metrics.first_audio_ready_time>>

MilestonesAfter ==
    <<metrics'.total_start_time, metrics'.first_token_received_time,
      metrics'.first_tts_start_time, metrics'.first_audio_ready_time>>

\* The milestones that are set do not decrease in the order listed.
MilestonesOrdered ==
    \A i, j \in 1..4 :
        i < j /\ Milestones[i] # Unset /\ Milestones[j] # Unset
            => Milestones[i] <= Milestones[j]

\* A milestone that is set keeps its value.
MilestonesKept ==
    \A i \in 1..4 : Milestones[i] # Unset => MilestonesAfter[i] = Milestones[i]

\* C15: in every turn, under a clock whose readings do not decrease, each
\* milestone is assigned at most once and the milestones that are set are
\* non-decreasing in the order listed, at every point of the turn.
C15_MilestonesOnceAndOrdered ==
    []MilestonesOrdered /\ [][MilestonesKept]_vars

\* A turn ended with its four milestones set, after fragments arrived
\* beyond the one that set the first-token milestone.
C15_Witness ==
    /\ pc = "done"
    /\ \A i \in 1..4 : Milestones[i] # Unset
    /\ Len(frags) >= 3
    /\ Len(calls) >= 2


\* The transcriber, the text generator or the synthesizer has failed in
\* this turn, by an error return or by raising.
CollaboratorFailed ==
    \/ stt_calls # <<>> /\ env.stt.kind = "raise"
    \/ failure # ""
    \/ \E i \in 1..Len(calls) : calls[i].result \in {"failed", "unavailable"}

\* Where response_handler is while it runs, and where it is after it
\* returned (the segment sequence ended normally).
Running == {"start", "stt", "gen", "tts", "yield", "drain", "tts_final",
            "yield_final"}

Returned == {"rejected", "done"}

\* C17: after any failure of the transcriber, the text generator or the
\* synthesizer, response_handler is still running or has returned, and
\* when it can take no further step it has returned (or its consumer has
\* closed it): no exception has left it.
C17_NoExceptionLeaves ==
    CollaboratorFailed =>
        /\ pc \in Running \cup Returned \cup {"cancelled"}
        /\ ~ENABLED Next => pc \in Returned \cup {"cancelled"}

\* A turn returned normally after the stream broke off and a synthesis
\* call failed.
C17_Witness ==
    /\ pc = "done"
    /\ failure = "stream_mid"
    /\ \E i \in 1..Len(calls) : calls[i].result = "failed"


\* The texts passed to create_tts_audio, in call order.
CallTexts == [i \in 1..Len(calls) |-> calls[i].text]

\* The partition of a fragment sequence taken alone: the spans cut from
\* its first n fragments, each cut as soon as the text gathered since the
\* last cut has 3 or more characters between its outer whitespace, and
\* the text gathered since the last cut.
RECURSIVE PartitionOf(_, _)
PartitionOf(fs, n) ==
    IF n = 0 THEN [spans |-> <<>>, rest |-> <<>>]
    ELSE LET cut == PartitionOf(fs, n - 1)
             text == cut.rest \o fs[n]
         IN  IF Len(Strip(text)) >= 3
             THEN [spans |-> Append(cut.spans, Strip(text)), rest |-> <<>>]
             ELSE [spans |-> cut.spans, rest |-> text]

\* The spans of a fragment sequence whose stream has ended: those of the
\* partition, and what is left if it is not blank.
SpansOfEnded(fs) ==
    LET cut == PartitionOf(fs, Len(fs))
    IN  cut.spans \o (IF Strip(cut.rest) # <<>> THEN <<Strip(cut.rest)>>
                      ELSE <<>>)

\* C18: the texts sent to the synthesizer are a function of the fragments
\* received alone.  While the stream is open they are the spans of the
\* partition of the fragments, and once the turn has ended they are the
\* spans of the ended fragment sequence, whatever the readings of the
\* clock and whichever synthesis calls succeeded or failed.
C18_PartitionIsFunctionOfFragments ==
    /\ pc \in {"gen", "tts", "yield", "drain"} =>
          CallTexts = PartitionOf(frags, Len(frags)).spans
    /\ pc \in {"tts_final", "yield_final", "done"} =>
          CallTexts = SpansOfEnded(frags)

\* A turn ended after three fragments with two synthesis calls, one that
\* succeeded and one that failed.
C18_Witness ==
    /\ pc = "done"
    /\ Len(frags) = 3
    /\ Len(calls) = 2
    /\ calls[1].result = "failed"
    /\ calls[2].result = "ok"


\* The synthesis calls that succeeded, and the first of them.
Succeeded == {i \in 1..Len(calls) : calls[i].result = "ok"}

FirstSucceeded == CHOOSE i \in Succeeded : \A j \in Succeeded : i <= j

\* A reading of the clock was taken during the n-th flush: not before its
\* synthesis call started, and before the next call started, if any.
DuringFlush(time, n) ==
    /\ calls[n].tts_start_time <= time
    /\ n < Len(calls) => time < calls[n + 1].tts_start_time

\* C19: at the end of every turn the first-synthesis-start milestone is
\* set if and only if the first-audio-ready milestone is set, and when
\* they are set both were recorded during the first flush whose synthesis
\* call succeeded.
C19_StartOnlyOnSuccessfulFlush ==
    pc = "done" =>
        /\ metrics.first_tts_start_time # Unset
              <=> metrics.first_audio_ready_time # Unset
        /\ metrics.first_audio_ready_time # Unset =>
              /\ Succeeded # {}
              /\ DuringFlush(metrics.first_tts_start_time, FirstSucceeded)
              /\ DuringFlush(metrics.first_audio_ready_time, FirstSucceeded)


\* The synthesis calls made by the streaming loop (not by the final
\* flush), and those of them that succeeded.
LoopCalls == {i \in 1..Len(calls) : calls[i].phase = "loop"}

LoopSucceeded == LoopCalls \cap Succeeded

\* C19, amended: the first-synthesis-start milestone is recorded when the
\* first flush starts its synthesis call, whether or not that call
\* succeeds, and every flush of the streaming loop finds it set or sets
\* it; the first-audio-ready milestone is recorded during the first flush
\* whose call succeeds, and every successful flush of the streaming loop
\* finds it set or sets it.  So first-audio-ready set implies
\* first-synthesis-start set, not the converse, and the two belong to the
\* same flush only when the first flush succeeded.
C19_StartOnFirstFlush ==
    /\ metrics.first_tts_start_time # Unset =>
          /\ calls # <<>>
          /\ metrics.first_tts_start_time = calls[1].tts_start_time
    /\ LoopCalls # {} => metrics.first_tts_start_time # Unset
    /\ metrics.first_audio_ready_time # Unset =>
          /\ Succeeded # {}
          /\ DuringFlush(metrics.first_audio_ready_time, FirstSucceeded)
          /\ metrics.first_tts_start_time # Unset
    /\ LoopSucceeded # {} => metrics.first_audio_ready_time # Unset

\* A turn ended whose first flush failed and whose second succeeded: the
\* two milestones are set and belong to different flushes.
C19_Witness ==
    /\ pc = "done"
    /\ Len(calls) >= 2
    /\ calls[1].result = "failed"
    /\ calls[2].phase = "loop"
    /\ calls[2].result = "ok"
    /\ metrics.first_tts_start_time < calls[2].tts_start_time
    /\ metrics.first_audio_ready_time > calls[2].tts_start_time


\* C20: at the end of every turn the first-audio-ready milestone is set if
\* and only if the turn yielded at least one segment, whichever flush the
\* segment came from.
C20_AudioReadyIffYielded ==
    pc = "done" =>
        (metrics.first_audio_ready_time # Unset <=> yielded # <<>>)


\* The request a turn with this transcript sends when no other turn runs:
\* its own user message, and nothing else.
RequestAlone(text) == <<[role |-> "user", content |-> text]>>

\* C16: when two turns run at the same time under any interleaving, each
\* sends the model the request it would send if it ran alone (so that the
\* fragments it receives, and the spans it cuts from them, are those of
\* the turn alone): nothing of the other turn is in it.
C16_TurnsIsolated ==
    /\ payload # <<>> => payload = RequestAlone(transcription)
    /\ peer.payload # <<>> => peer.payload = RequestAlone(peer.transcription)


\* Some synthesis call of the turn found the synthesizer unavailable.
FoundUnavailable ==
    \E i \in 1..Len(calls) : calls[i].result = "unavailable"

\* C21, as the spec states it: once a flush has found the synthesizer
\* unavailable, no further fragment is consumed and no further synthesis
\* call is made in the turn.
C21_UnavailableIsFatal ==
    [][FoundUnavailable => frags' = frags /\ Len(calls') = Len(calls)]_vars

\* The step in which the pending synthesis call returns without audio
\* because the synthesizer is unavailable.
ReturnsUnavailable ==
    /\ pc \in {"tts", "tts_final"}
    /\ Len(calls') = Len(calls)
    /\ calls'[Len(calls)].result = "unavailable"

\* C21, amended: a flush that finds the synthesizer unavailable is treated
\* like any failed synthesis.  It yields no segment; in the streaming loop
\* the pending text is dropped and the handler goes back to pull the next
\* fragment, so later flushes ask the synthesizer again; at the final
\* flush the turn ends normally.
C21_UnavailableIsSkipped ==
    [][ReturnsUnavailable =>
          /\ yielded' = yielded
          /\ pc = "tts" => pc' = "gen" /\ text_buffer' = <<>>
          /\ pc = "tts_final" => pc' = "done"]_vars

\* After a flush found the synthesizer unavailable, the turn consumed
\* another fragment and a later flush yielded a segment.
C21_Witness ==
    /\ Len(calls) >= 2
    /\ calls[1].result = "unavailable"
    /\ calls[2].result = "ok"
    /\ SegmentsOf(2) # {}
    /\ Len(frags) >= 2


\* The transcriber returned a transcript that passed the gate; the
\* transcript, as the quality filter sees it.
Filtered ==
    /\ SttReturned
    /\ Strip(env.stt.text) # <<>>
    /\ env.stt.no_speech_prob <= 900

Transcript == Strip(env.stt.text)

\* C22: when the transcript matches more than one rule of the quality
\* filter, the reason reported is that of the first matching rule in the
\* rule order.
C22_FirstMatchReported ==
    Filtered /\ Len(RuleMatches(Transcript)) > 1 =>
        /\ pc = "rejected"
        /\ reason = RuleMatches(Transcript)[1]


\* The six rules as the claim states them, with strict thresholds.
\* Quantities are compared after multiplying out the divisions.
CountOf(text, chars) == Len(Filter(text, chars))

RuleBadSubstring(text) ==
    \E i \in 1..Len(bad_strings) : Contains(text, bad_strings[i])

RuleExclamations(text) ==
    \/ CountOf(text, {"!"}) > 20
    \/ CountOf(text, {"!"}) * 10 > Len(text) * 3

RuleRepetition(text) ==
    LET body == Filter(text, {text[i] : i \in 1..Len(text)} \ {" ", "\n"})
        distinct == Cardinality({body[i] : i \in 1..Len(body)})
    IN  Len(body) > 10 /\ (Len(body) - distinct) * 10 > Len(body) * 8

RuleAffectionLoop(text) ==
    Len(text) > 200 /\ (Contains(text, I_LOVE_YOU) \/ Contains(text, LOVE_YOU))

RuleLowAlphabetic(text) == CountOf(text, Letters) * 10 < Len(text) * 3

RuleHallucination(text) ==
    \E i \in 1..Len(hallucination_patterns) :
        Contains(text, hallucination_patterns[i])

AnyRule(text) ==
    \/ RuleBadSubstring(text)
    \/ RuleExclamations(text)
    \/ RuleRepetition(text)
    \/ RuleAffectionLoop(text)
    \/ RuleLowAlphabetic(text)
    \/ RuleHallucination(text)

\* C23: a transcript that passed the gate is rejected if and only if at
\* least one of the six rules matches it, the thresholds being strict (20
\* exclamation marks at a density of at most 0.3, and letters that are
\* exactly 0.3 of the length, match nothing); a transcript that matches no
\* rule reaches text generation.
C23_RejectedIffSomeRule ==
    Filtered =>
        /\ pc = "rejected" <=> AnyRule(Transcript)
        /\ ~AnyRule(Transcript) => gen # "new" \/ pc = "gen"

\* A transcript with exactly 20 exclamation marks at a density below 0.3
\* went through the filter and the turn got its reply.
C23_Witness ==
    /\ Filtered
    /\ CountOf(Transcript, {"!"}) = 20
    /\ pc = "done"
    /\ frags # <<>>

---------------------------------------------------------------------------
(* C24: termination of a turn that passed the filters.                     *)

\* The turn is over: the handler returned or its generator was closed.
Ended == pc \in {"rejected", "done", "cancelled"}

FinalCalls == {i \in 1..Len(calls) : calls[i].phase = "final"}

\* After the stream's end the handler makes its final flush or ends, and
\* after the final flush it ends.
AfterLastFragment ==
    /\ pc = "drain" => pc' \in {"tts_final", "done"}
    /\ pc \in {"tts_final", "yield_final"} =>
           pc' \in {"yield_final", "done", "cancelled"}

EndedStaysEnded ==
    Ended => (calls' = calls /\ yielded' = yielded /\ Ended')

\* C24: with a finite stream and a synthesizer whose calls return, a turn
\* that passed the filters terminates; after the last fragment it makes at
\* most one final flush; once it has ended, no synthesis call is started
\* and no segment is yielded.
C24_TurnTerminates ==
    /\ (pc = "gen") ~> Ended
    /\ [](Cardinality(FinalCalls) <= 1)
    /\ [][AfterLastFragment]_vars
    /\ [][EndedStaysEnded]_vars

\* A turn ended after its one final flush, which followed a flush of the
\* loop.
C24_Witness ==
    /\ pc = "done"
    /\ gen = "ended"
    /\ Cardinality(FinalCalls) = 1
    /\ Len(calls) = 2
    /\ Len(yielded) = 2

---------------------------------------------------------------------------
(* C25: text_buffer around the flushes.                                    *)

\* A create_tts_audio call returns in this step.
FlushAttemptReturns == pc \in {"tts", "tts_final"} /\ pc' # pc

\* The handler comes back to the head of the loop from a flush of the
\* loop: directly when the synthesis gave nothing, through the yield when
\* it gave a segment.
BackFromFlush == pc \in {"tts", "yield"} /\ pc' = "gen"

BelowThresholdAtPull ==
    AtLoopHead => Len(Strip(text_buffer)) < min_tts_length

---------------------------------------------------------------------------
(* C26: which inputs are decimated.                                        *)

\* The int16 signal that the audio handed to the transcriber was made
\* from.
Handed == stt_calls[1]

\* The positions at which the handed signal is compared with the input:
\* its first samples and its last ones.
Probes(n) == (1..12) \cup ((n - 11)..n)

EverySecondSample ==
    /\ Handed.len = (input.len + 1) \div 2
    /\ \A i \in Probes(Handed.len) :
          SampleAt(Handed, i) = SampleAt(input, 2 * i - 1)

SameSamples ==
    /\ Handed.len = input.len
    /\ \A i \in Probes(Handed.len) : SampleAt(Handed, i) = SampleAt(input, i)

\* C26 as stated: an input at 48000, 44100 or 16000 Hz reaches the
\* transcriber as every second sample at half the rate, an input at any
\* other rate with the same samples at the same rate.
C26_EveryDoubleRateHalved ==
    stt_calls # <<>> =>
        IF input.rate \in {48000, 44100, 16000}
        THEN Handed.rate * 2 = input.rate /\ EverySecondSample
        ELSE Handed.rate = input.rate /\ SameSamples

\* C26 as the code has it: only an input at 48000 Hz reaches the
\* transcriber as every second sample at 24000 Hz; an input at any other
\* rate, 44100 and 16000 Hz included, keeps its samples and its rate.
C26_Only48kHalved ==
    stt_calls # <<>> =>
        IF input.rate = 48000
        THEN Handed.rate = 24000 /\ EverySecondSample
        ELSE Handed.rate = input.rate /\ SameSamples

\* A 48 kHz input with an odd number of samples, whose every second
\* sample is not the signal itself, was handed to the transcriber.
C26_Witness ==
    /\ stt_calls # <<>>
    /\ input.rate = 48000
    /\ input.len % 2 = 1
    /\ Handed.pat # input.pat
    /\ pc = "done"

---------------------------------------------------------------------------
(* C27: audio longer than max_audio_duration.                              *)

\* The input lasts longer than max_audio_duration.
TooLong == input.len * 1000 > MaxAudioDurationMs * input.rate

\* Sample i of the audio after the sample rate conversion, read from the
\* input.
ConvertedSample(i) ==
    IF input.rate = 48000 THEN SampleAt(input, 2 * i - 1)
    ELSE SampleAt(input, i)

---------------------------------------------------------------------------
(* C28: the bound of the conversation history.                             *)

\* The last n elements of s, or all of s when it has fewer.
LastOf(s, n) ==
    LET k == IF Len(s) < n THEN Len(s) ELSE n
    IN  [i \in 1..k |-> s[Len(s) - k + i]]

\* C28: after any sequence of add_to_history calls the conversation
\* history has at most 20 entries, and they are the entries added last, in
\* the order in which they were added.
C28_HistoryIsLastTwenty ==
    /\ Len(conversation_history) <= 20
    /\ conversation_history = LastOf(added, 20)

\* More than 20 entries were added and the first ones are gone.
C28_Witness ==
    /\ Len(added) = 23
    /\ Len(conversation_history) = 20
    /\ conversation_history[1] = added[4]
    /\ conversation_history[20] = added[23]

---------------------------------------------------------------------------
(* C29: the shape of the conversation history after a call.                *)

\* User and assistant entries take turns, and each user entry has its
\* assistant entry after it.
Alternates(history) ==
    /\ Len(history) % 2 = 0
    /\ \A i \in 1..Len(history) :
          history[i].role = IF i % 2 = 1 THEN "user" ELSE "assistant"

\* C29: when a call_api_stream call has run to the end of its stream, the
\* conversation history alternates user and assistant entries, the user
\* entry of the call being followed by its assistant entry, also when the
\* request failed, the status was an error or the reply was empty.
C29_HistoryAlternates ==
    pc = "done" /\ gen \in {"ended", "apologized"} =>
        Alternates(conversation_history)

---------------------------------------------------------------------------
(* C30: a model without an API key.                                        *)

\* The current model exists but is not configured, and the handler has
\* pulled from call_ai_api_stream.
NotConfiguredAsked == env.model = "no_key" /\ gen # "new"

\* C30: when the current model is not configured, call_ai_api_stream
\* yields one fragment, the fixed message, and ends; no request is made
\* and the conversation history stays as it was; the turn yields at most
\* one segment, made from that message.
C30_NotConfiguredApologizesOnce ==
    NotConfiguredAsked =>
        /\ gen \in {"apologized", "ended"}
        /\ frags = <<MSG_NOT_CONFIGURED>>
        /\ payload = <<>>
        /\ conversation_history = <<>>
        /\ Len(calls) <= 1
        /\ Len(yielded) <= 1
        /\ \A i \in 1..Len(calls) : calls[i].text = MSG_NOT_CONFIGURED
        /\ \A i \in 1..Len(yielded) :
              yielded[i].sourceText = MSG_NOT_CONFIGURED

\* The turn of a model without a key ended after its one segment.
C30_Witness ==
    /\ NotConfiguredAsked
    /\ gen = "ended"
    /\ pc = "done"
    /\ Len(yielded) = 1
    /\ yielded[1].sourceText = MSG_NOT_CONFIGURED

=============================================================================
